---- MODULE Spec2Model ----
(***************************************************************************)
(* Model of bin/trait_mapping/trait_mapping.py: the resolution of ClinVar  *)
(* trait names to ontology terms through Zooma (primary source), OLS       *)
(* (term metadata) and OxO (cross references).                             *)
(*                                                                         *)
(* Python strings that the code takes apart (URIs, curies, database names) *)
(* are sequences of one-character strings; labels and other strings that   *)
(* the code only copies and compares are TLA+ strings.  Python's None is   *)
(* the record None; a value that may be None is wrapped by Some.           *)
(***************************************************************************)
EXTENDS Integers, Sequences, FiniteSets, TLC

None == [none |-> TRUE]
Some(x) == [none |-> FALSE, val |-> x]

(***************************************************************************)
(* Bounds of the model.                                                    *)
(***************************************************************************)
\* traits in the corpus of one run
MaxTraits == 2
\* results (mapping groups) in one Zooma response
MaxGroups == 2
\* episodes in one run during which a remote service fails
MaxOutages == 1
\* entries an lru_cache holds before it evicts (16384 in the code)
CacheSize == 1

(***************************************************************************)
(* Characters and the string functions the code uses.                      *)
(***************************************************************************)
UpperChars == <<"A","B","C","D","E","F","G","H","I","J","K","L","M","N","O","P","Q","R","S","T","U","V","W","X","Y","Z">>
LowerChars == <<"a","b","c","d","e","f","g","h","i","j","k","l","m","n","o","p","q","r","s","t","u","v","w","x","y","z">>
DigitChars == {"0","1","2","3","4","5","6","7","8","9"}

LowerChar(c) ==
    IF \E i \in 1..Len(UpperChars) : UpperChars[i] = c
    THEN LowerChars[CHOOSE i \in 1..Len(UpperChars) : UpperChars[i] = c]
    ELSE c

\* str.lower()
Lower(s) == [i \in 1..Len(s) |-> LowerChar(s[i])]

\* x in s, for strings
Contains(s, x) ==
    \E i \in 1..(Len(s) - Len(x) + 1) : SubSeq(s, i, i + Len(x) - 1) = x

\* positions of the separator c in s
Positions(s, c) == {i \in 1..Len(s) : s[i] = c}

\* s.rstrip("/")
RECURSIVE RStripSlash(_)
RStripSlash(s) ==
    IF Len(s) > 0 /\ s[Len(s)] = "/" THEN RStripSlash(SubSeq(s, 1, Len(s) - 1)) ELSE s

\* s.split(c)[-1]
LastField(s, c) ==
    LET ps == Positions(s, c)
        from == IF ps = {} THEN 1 ELSE (CHOOSE p \in ps : \A q \in ps : q <= p) + 1
    IN  SubSeq(s, from, Len(s))

\* what precedes the last separator: c.join(s.split(c)[:-1]); only when c occurs in s
ButLastField(s, c) ==
    LET ps == Positions(s, c)
        p == CHOOSE p \in ps : \A q \in ps : q <= p
    IN  SubSeq(s, 1, p - 1)

\* NON_NUMERIC_RE.sub("", s)
StripNonNumeric(s) == SelectSeq(s, LAMBDA c : c \in DigitChars)

(***************************************************************************)
(* OntologyUri                                                             *)
(***************************************************************************)
db_orphanet == <<"o","r","p","h","a","n","e","t">>
db_omim == <<"o","m","i","m">>
db_efo == <<"e","f","o">>
db_mesh == <<"m","e","s","h">>
db_medgen == <<"m","e","d","g","e","n">>
db_human_phenotype_ontology == <<"h","u","m","a","n"," ","p","h","e","n","o","t","y","p","e"," ","o","n","t","o","l","o","g","y">>
db_hp == <<"h","p">>

\* the templates, without the trailing {}
db_to_uri_dict ==
    [k \in {db_orphanet, db_omim, db_efo, db_mesh, db_medgen, db_human_phenotype_ontology, db_hp} |->
        CASE k = db_orphanet -> <<"h","t","t","p",":","/","/","w","w","w",".","o","r","p","h","a",".","n","e","t","/","O","R","D","O","/","O","r","p","h","a","n","e","t","_">>
          [] k = db_omim -> <<"h","t","t","p",":","/","/","i","d","e","n","t","i","f","i","e","r","s",".","o","r","g","/","o","m","i","m","/">>
          [] k = db_efo -> <<"h","t","t","p",":","/","/","w","w","w",".","e","b","i",".","a","c",".","u","k","/","e","f","o","/","E","F","O","_">>
          [] k = db_mesh -> <<"h","t","t","p",":","/","/","i","d","e","n","t","i","f","i","e","r","s",".","o","r","g","/","m","e","s","h","/">>
          [] k = db_medgen -> <<"h","t","t","p",":","/","/","i","d","e","n","t","i","f","i","e","r","s",".","o","r","g","/","m","e","d","g","e","n","/">>
          [] OTHER -> <<"h","t","t","p",":","/","/","p","u","r","l",".","o","b","o","l","i","b","r","a","r","y",".","o","r","g","/","o","b","o","/","H","P","_">>]

\* a variant of OntologyUri that takes the database name for the template when the dict
\* does not hold it
OntologyUri_defaulted(id_, db) ==
    IF Lower(db) \notin DOMAIN db_to_uri_dict
    THEN [ok |-> TRUE, uri |-> db \o <<"_">> \o id_]
    ELSE IF Lower(db) = db_human_phenotype_ontology
         THEN [ok |-> TRUE, uri |-> db_to_uri_dict[Lower(db)] \o SubSeq(id_, 4, Len(id_))]
         ELSE [ok |-> TRUE, uri |-> db_to_uri_dict[Lower(db)] \o id_]

\* a variant of OntologyUri that substitutes the whole identifier for every database
OntologyUri_whole_id(id_, db) ==
    IF Lower(db) \notin DOMAIN db_to_uri_dict
    THEN [ok |-> FALSE, error |-> "KeyError"]
    ELSE [ok |-> TRUE, uri |-> db_to_uri_dict[Lower(db)] \o id_]

\* OntologyUri(id_, db).uri; [ok |-> FALSE] stands for the KeyError of the dict lookup
OntologyUri(id_, db) ==
    IF Lower(db) \notin DOMAIN db_to_uri_dict
    THEN [ok |-> FALSE, error |-> "KeyError"]
    ELSE IF Lower(db) = db_human_phenotype_ontology
         THEN [ok |-> TRUE, uri |-> db_to_uri_dict[Lower(db)] \o SubSeq(id_, 4, Len(id_))]
         ELSE [ok |-> TRUE, uri |-> db_to_uri_dict[Lower(db)] \o id_]

(***************************************************************************)
(* uri_to_oxo_format, uris_to_oxo_format                                   *)
(***************************************************************************)
seg_ordo == <<"o","r","d","o">>
seg_obo == <<"o","b","o">>

URI_DB_TO_DB_DICT ==
    [k \in {seg_ordo, db_omim, db_efo, db_mesh, seg_obo} |->
        CASE k = seg_ordo -> <<"O","r","p","h","a","n","e","t">>
          [] k = db_omim -> <<"O","M","I","M">>
          [] k = db_efo -> <<"E","F","O">>
          [] k = db_mesh -> <<"M","e","S","H">>
          [] OTHER -> <<"H","P">>]

\* uri_to_oxo_format(uri): None, the identifier "DB:ID", or the KeyError of line 628.
\* The lru_cache of this function memoizes a function of the uri alone and is not modelled.
uri_to_oxo_format(uri) ==
    IF ~ \E x \in DOMAIN URI_DB_TO_DB_DICT : Contains(Lower(uri), x)
    THEN [ok |-> TRUE, res |-> None]
    ELSE LET u == RStripSlash(uri)
             last == LastField(u, "/")
             rest == IF Positions(u, "/") = {} THEN <<>> ELSE ButLastField(u, "/")
             src == Lower(LastField(rest, "/"))
             id_ == StripNonNumeric(last)
         IN  IF Positions(u, "/") = {}
             THEN [ok |-> FALSE, error |-> "IndexError"]
             ELSE IF src \notin DOMAIN URI_DB_TO_DB_DICT
                  THEN [ok |-> FALSE, error |-> "KeyError"]
                  ELSE [ok |-> TRUE, res |-> Some(URI_DB_TO_DB_DICT[src] \o <<":">> \o id_)]

\* uris_to_oxo_format(uri_set): the identifiers of the uris, those converted to None left out.
\* uri_list is the set in the order the loop of line 635 iterates it.
RECURSIVE uris_to_oxo_format(_)
uris_to_oxo_format(uri_list) ==
    IF uri_list = <<>>
    THEN [ok |-> TRUE, res |-> <<>>]
    ELSE LET oxo_id == uri_to_oxo_format(Head(uri_list))
             rest == uris_to_oxo_format(Tail(uri_list))
         IN  IF ~oxo_id.ok THEN oxo_id
             ELSE IF ~rest.ok THEN rest
             ELSE IF oxo_id.res.none THEN rest
             ELSE [ok |-> TRUE, res |-> <<oxo_id.res.val>> \o rest.res]

(***************************************************************************)
(* The remote services.  The ontology (OLS) and the cross references (OxO) *)
(* are a fixed small universe; Zooma answers a trait name with any         *)
(* response of at most MaxGroups results over the uris of the universe.    *)
(***************************************************************************)
Uri_EFO_1 == db_to_uri_dict[db_efo] \o <<"1">>
Uri_EFO_5 == db_to_uri_dict[db_efo] \o <<"5">>
Uri_Orphanet_2 == db_to_uri_dict[db_orphanet] \o <<"2">>
Uri_HP_3 == db_to_uri_dict[db_hp] \o <<"3">>
Uri_medgen_4 == db_to_uri_dict[db_medgen] \o <<"C","4">>
Uri_mesh_7 == db_to_uri_dict[db_mesh] \o <<"D","7">>

\* the uris Zooma annotates with
ZoomaUris == {Uri_EFO_1, Uri_Orphanet_2, Uri_HP_3, Uri_medgen_4}

conf_HIGH == <<"H","I","G","H">>
conf_GOOD == <<"G","O","O","D">>
conf_MEDIUM == <<"M","E","D","I","U","M">>
conf_LOW == <<"L","O","W">>
ZoomaConfidenceNames == {conf_LOW, conf_MEDIUM, conf_GOOD, conf_HIGH}

\* one result of a Zooma response (the fields get_mappings_for_trait reads)
\* Zooma annotates with the uris of ZoomaUris at every confidence, and with Uri_mesh_7 at
\* HIGH confidence
ZoomaResults ==
    [semanticTags : {<<u>> : u \in ZoomaUris},
     propertyValue : {"property value"},
     confidence : ZoomaConfidenceNames,
     source : {"eva-clinvar"}]
    \cup {[semanticTags |-> <<Uri_mesh_7>>, propertyValue |-> "property value",
           confidence |-> conf_HIGH, source |-> "eva-clinvar"]}

RECURSIVE SeqsUpTo(_, _)
SeqsUpTo(S, n) ==
    IF n = 0 THEN {<<>>}
    ELSE LET shorter == SeqsUpTo(S, n - 1)
         IN  shorter \cup {Append(q, x) : q \in {r \in shorter : Len(r) = n - 1}, x \in S}

\* A trait name is modelled by the response Zooma gives for its query: trait names are
\* opaque to the code, and Zooma's answer is a function of the query.
TraitNames == SeqsUpTo(ZoomaResults, MaxGroups)

\* build_zooma_query: the url determines, and is determined by, the trait name
\* (filters and host are fixed for a run)
build_zooma_query(trait_name) == trait_name

\* the json Zooma returns for a url
zooma_service(url) == url

\* the response of OLS to ols_efo_query(uri): the ontology holds EFO_1 and EFO_5 as
\* current terms and Orphanet_2 as an obsolete term
ols_efo_service(uri) ==
    CASE uri \in {Uri_EFO_1, Uri_EFO_5} -> [status_code |-> 200, json |-> Some([is_obsolete |-> FALSE])]
      [] uri = Uri_Orphanet_2 -> [status_code |-> 200, json |-> Some([is_obsolete |-> TRUE])]
      [] OTHER -> [status_code |-> 404, json |-> Some([error |-> "Not Found"])]

\* what ols_query_helper returns for the terms query of a uri when OLS answers: the
\* label of the defining term, None where no term is the defining one
ols_terms_service(uri) ==
    CASE uri = Uri_EFO_1 -> Some("ols label EFO_1")
      [] uri = Uri_EFO_5 -> Some("ols label EFO_5")
      [] uri = Uri_Orphanet_2 -> Some("ols label Orphanet_2")
      [] uri = Uri_HP_3 -> Some("ols label HP_3")
      [] OTHER -> None

curie_Orphanet_2 == <<"O","r","p","h","a","n","e","t",":","2">>
curie_HP_3 == <<"H","P",":","3">>
curie_EFO_1 == <<"E","F","O",":","1">>
curie_EFO_5 == <<"E","F","O",":","5">>
curie_OMIM_6 == <<"O","M","I","M",":","6">>
curie_MeSH_7 == <<"M","e","S","H",":","7">>
curie_MONDO_8 == <<"M","O","N","D","O",":","8">>

\* the search result of OxO for one queried identifier
oxo_service_result(id) ==
    CASE id = curie_Orphanet_2 ->
            [queryId |-> id, label |-> "oxo label Orphanet:2", curie |-> id,
             mappingResponseList |->
                <<[label |-> "oxo label EFO:5", curie |-> curie_EFO_5, distance |-> 3],
                  [label |-> "oxo label EFO:1", curie |-> curie_EFO_1, distance |-> 2],
                  [label |-> "oxo label OMIM:6", curie |-> curie_OMIM_6, distance |-> 1]>>]
      [] id = curie_HP_3 ->
            [queryId |-> id, label |-> "oxo label HP:3", curie |-> id,
             mappingResponseList |->
                <<[label |-> "oxo label Orphanet:2", curie |-> curie_Orphanet_2, distance |-> 1],
                  [label |-> "oxo label EFO:5", curie |-> curie_EFO_5, distance |-> 2],
                  [label |-> "oxo label EFO:1", curie |-> curie_EFO_1, distance |-> 1]>>]
      [] id = curie_MeSH_7 ->
            \* MONDO is not a database of OntologyUri.db_to_uri_dict
            [queryId |-> id, label |-> "oxo label MeSH:7", curie |-> id,
             mappingResponseList |->
                <<[label |-> "oxo label EFO:1", curie |-> curie_EFO_1, distance |-> 1],
                  [label |-> "oxo label MONDO:8", curie |-> curie_MONDO_8, distance |-> 2]>>]
      [] OTHER -> [queryId |-> id, label |-> "", curie |-> id, mappingResponseList |-> <<>>]

\* the json OxO returns for a payload: response["_embedded"]["searchResults"]
oxo_service(id_list) == [i \in 1..Len(id_list) |-> oxo_service_result(id_list[i])]

(***************************************************************************)
(* Classes                                                                 *)
(***************************************************************************)
UpperChar(c) ==
    IF \E i \in 1..Len(LowerChars) : LowerChars[i] = c
    THEN UpperChars[CHOOSE i \in 1..Len(LowerChars) : LowerChars[i] = c]
    ELSE c

\* str.upper()
Upper(s) == [i \in 1..Len(s) |-> UpperChar(s[i])]

\* the enum ZoomaConfidence: member name |-> value
ZoomaConfidence ==
    [n \in ZoomaConfidenceNames |->
        CASE n = conf_LOW -> 1 [] n = conf_MEDIUM -> 2 [] n = conf_GOOD -> 3 [] OTHER -> 4]

\* ZoomaConfidence.__str__
ZoomaConfidence_str(value) == CHOOSE n \in ZoomaConfidenceNames : ZoomaConfidence[n] = value

\* ZoomaEntry.__init__
ZoomaEntry(uri, confidence, source) ==
    [uri |-> uri, confidence |-> ZoomaConfidence[Upper(confidence)], source |-> source,
     ontology_label |-> "", in_efo |-> FALSE, is_current |-> FALSE]

\* ZoomaMapping.__init__
ZoomaMapping(uri_list, zooma_label, confidence, source) ==
    [zooma_label |-> zooma_label, confidence |-> confidence, source |-> source,
     zooma_entry_list |-> [i \in 1..Len(uri_list) |-> ZoomaEntry(uri_list[i], confidence, source)]]

\* curie.split(":") unpacked into two names: a ValueError unless there is exactly one ":"
SplitCurie(curie) ==
    IF Cardinality(Positions(curie, ":")) # 1
    THEN [ok |-> FALSE, error |-> "ValueError"]
    ELSE [ok |-> TRUE, db |-> ButLastField(curie, ":"), id_ |-> LastField(curie, ":")]

\* OxOMapping.__init__
OxOMapping(label, curie, distance, query_id) ==
    LET parts == SplitCurie(curie)
        uri == OntologyUri(parts.id_, parts.db)
    IN  IF ~parts.ok THEN parts
        ELSE IF ~uri.ok THEN uri
        ELSE [ok |-> TRUE,
              val |-> [label |-> label, db |-> parts.db, id_ |-> parts.id_, uri |-> uri.uri,
                       distance |-> distance, query_id |-> query_id, in_efo |-> FALSE,
                       is_current |-> FALSE, ontology_label |-> ""]]

\* OxOResult.__init__
OxOResult(query_id, label, curie) ==
    LET parts == SplitCurie(curie)
        uri == OntologyUri(parts.id_, parts.db)
    IN  IF ~parts.ok THEN parts
        ELSE IF ~uri.ok THEN uri
        ELSE [ok |-> TRUE,
              val |-> [query_id |-> query_id, label |-> label, db |-> parts.db,
                       id_ |-> parts.id_, uri |-> uri.uri, oxo_mapping_list |-> <<>>]]

\* OntologyEntry.__init__
OntologyEntry(uri, label) == [uri |-> uri, label |-> label]

\* a variant of OntologyEntry.__eq__ that compares the objects, as object.__eq__ does:
\* an entry just made is no entry of the set
OntologyEntry_eq_identity(self, other) == FALSE

\* OntologyEntry.__eq__ (other is an OntologyEntry)
OntologyEntry_eq(self, other) ==
    IF self.uri # other.uri \/ self.label # other.label THEN FALSE ELSE TRUE

\* OntologyEntry.__hash__: the hash of the tuple, which two entries share when their
\* tuples are equal
OntologyEntry_hash(self) == <<self.uri, self.label>>

\* A Python set of OntologyEntry objects is the sequence of its members, in the order
\* they were added.  set.add(x): x is added unless a member has its hash and equals it.
set_add(set, x) ==
    IF \E i \in 1..Len(set) :
            OntologyEntry_hash(set[i]) = OntologyEntry_hash(x) /\ OntologyEntry_eq(set[i], x)
    THEN set
    ELSE Append(set, x)

\* set.add of the elements of a list, one after the other
RECURSIVE set_add_all(_, _)
set_add_all(set, list) ==
    IF list = <<>> THEN set ELSE set_add_all(set_add(set, Head(list)), Tail(list))

\* Trait.__init__
Trait(name, frequency) ==
    [name |-> name, frequency |-> frequency, zooma_mapping_list |-> Some(<<>>),
     oxo_xref_list |-> Some(<<>>), finished_mapping_set |-> <<>>]

\* a variant of Trait.is_finished that needs two finished mappings
is_finished_two(t) == Len(t.finished_mapping_set) > 1

\* Trait.is_finished
is_finished(t) == Len(t.finished_mapping_set) > 0

(***************************************************************************)
(* Comparison and sorting                                                  *)
(***************************************************************************)
\* bool as the int Python compares it as
BoolInt(b) == IF b THEN 1 ELSE 0

\* a < b for tuples of ints: the first position where they differ decides
RECURSIVE TupleLt(_, _)
TupleLt(a, b) ==
    IF a = <<>> \/ b = <<>> THEN Len(a) < Len(b)
    ELSE IF Head(a) # Head(b) THEN Head(a) < Head(b)
    ELSE TupleLt(Tail(a), Tail(b))

\* a variant of ZoomaEntry.__lt__ with the operands exchanged
ZoomaEntry_gt(self, other) ==
    TupleLt(<<other.confidence, BoolInt(other.in_efo), BoolInt(other.is_current)>>,
            <<self.confidence, BoolInt(self.in_efo), BoolInt(self.is_current)>>)

\* ZoomaEntry.__lt__
ZoomaEntry_lt(self, other) ==
    TupleLt(<<self.confidence, BoolInt(self.in_efo), BoolInt(self.is_current)>>,
            <<other.confidence, BoolInt(other.in_efo), BoolInt(other.is_current)>>)

\* a variant of OxOMapping.__lt__ that does not exchange the distances
OxOMapping_lt_same_side(self, other) ==
    TupleLt(<<self.distance, BoolInt(self.in_efo), BoolInt(self.is_current)>>,
            <<other.distance, BoolInt(other.in_efo), BoolInt(other.is_current)>>)

\* OxOMapping.__lt__
OxOMapping_lt(self, other) ==
    TupleLt(<<other.distance, BoolInt(self.in_efo), BoolInt(self.is_current)>>,
            <<self.distance, BoolInt(other.in_efo), BoolInt(other.is_current)>>)

\* x < y for the elements of the list being sorted
Lt(kind, x, y) == IF kind = "ZoomaEntry" THEN ZoomaEntry_lt(x, y) ELSE OxOMapping_lt(x, y)

Reverse(s) == [i \in 1..Len(s) |-> s[Len(s) + 1 - i]]

\* the binary search of CPython's binarysort: where pivot goes into the sorted a[l..r-1]
RECURSIVE BinarySearch(_, _, _, _, _)
BinarySearch(kind, a, pivot, l, r) ==
    IF l >= r THEN l
    ELSE LET p == l + ((r - l) \div 2)
         IN  IF Lt(kind, pivot, a[p + 1])
             THEN BinarySearch(kind, a, pivot, l, p)
             ELSE BinarySearch(kind, a, pivot, p + 1, r)

\* binarysort: insert the elements of todo one by one into sorted
RECURSIVE binarysort(_, _, _)
binarysort(kind, sorted, todo) ==
    IF todo = <<>> THEN sorted
    ELSE LET pivot == Head(todo)
             l == BinarySearch(kind, sorted, pivot, 0, Len(sorted))
         IN  binarysort(kind,
                        SubSeq(sorted, 1, l) \o <<pivot>> \o SubSeq(sorted, l + 1, Len(sorted)),
                        Tail(todo))

\* list.sort(reverse=True) of a list shorter than 64: the list is reversed, sorted by binary
\* insertion with __lt__, and reversed again
list_sort_reverse(kind, list) == Reverse(binarysort(kind, <<>>, Reverse(list)))

(***************************************************************************)
(* Trait methods and the functions of the orchestration                    *)
(***************************************************************************)
\* the elements of the lists lists[1].f, lists[2].f, ... in order
RECURSIVE Concat(_)
Concat(lists) == IF lists = <<>> THEN <<>> ELSE Head(lists) \o Concat(Tail(lists))

ZoomaEntries(zooma_mapping_list) ==
    Concat([i \in 1..Len(zooma_mapping_list) |-> zooma_mapping_list[i].zooma_entry_list])

OxOMappings(oxo_xref_list) ==
    Concat([i \in 1..Len(oxo_xref_list) |-> oxo_xref_list[i].oxo_mapping_list])

Range(s) == {s[i] : i \in 1..Len(s)}

str_high == <<"h","i","g","h">>

\* the OntologyEntry of each element of a list of ZoomaEntry or of OxOMapping
OntologyEntries(list) == [i \in 1..Len(list) |-> OntologyEntry(list[i].uri, list[i].ontology_label)]

\* a variant of Trait.process_zooma_mappings without the test on the confidence
process_zooma_mappings_any_confidence(t) ==
    set_add_all(t.finished_mapping_set,
                OntologyEntries(SelectSeq(ZoomaEntries(t.zooma_mapping_list.val),
                                          LAMBDA entry : entry.in_efo /\ entry.is_current)))

\* Trait.process_zooma_mappings: the finished_mapping_set it leaves (the list is not None)
process_zooma_mappings(t) ==
    LET high == SelectSeq(t.zooma_mapping_list.val, LAMBDA mapping : Lower(mapping.confidence) = str_high)
    IN  set_add_all(t.finished_mapping_set,
                    OntologyEntries(SelectSeq(ZoomaEntries(high),
                                              LAMBDA entry : entry.in_efo /\ entry.is_current)))

\* a variant of Trait.process_oxo_mappings without the test on the distance
process_oxo_mappings_any_distance(t) ==
    set_add_all(t.finished_mapping_set,
                OntologyEntries(SelectSeq(OxOMappings(t.oxo_xref_list.val),
                                          LAMBDA mapping : mapping.in_efo /\ mapping.is_current)))

\* Trait.process_oxo_mappings: the finished_mapping_set it leaves (the list is not None)
process_oxo_mappings(t) ==
    set_add_all(t.finished_mapping_set,
                OntologyEntries(SelectSeq(OxOMappings(t.oxo_xref_list.val),
                                          LAMBDA mapping : /\ mapping.in_efo /\ mapping.is_current
                                                           /\ mapping.distance = 1)))

\* a variant of get_zooma_mappings_for_curation without the test of line 253
get_zooma_mappings_for_curation_any_entry(t) ==
    list_sort_reverse("ZoomaEntry", ZoomaEntries(t.zooma_mapping_list.val))

\* get_zooma_mappings_for_curation
get_zooma_mappings_for_curation(t) ==
    list_sort_reverse("ZoomaEntry",
        SelectSeq(ZoomaEntries(t.zooma_mapping_list.val), LAMBDA e : e.in_efo /\ e.is_current))

\* get_oxo_mappings_for_curation
get_oxo_mappings_for_curation(t) ==
    list_sort_reverse("OxOMapping",
        SelectSeq(OxOMappings(t.oxo_xref_list.val), LAMBDA m : m.in_efo /\ m.is_current))

\* output_for_curation: the row it writes
output_for_curation(t) ==
    LET zooma_entry_list == get_zooma_mappings_for_curation(t)
        oxo_mapping_list == get_oxo_mappings_for_curation(t)
    IN  [name |-> t.name, frequency |-> t.frequency,
         zooma_cells |-> [i \in 1..Len(zooma_entry_list) |->
                            <<zooma_entry_list[i].uri, zooma_entry_list[i].ontology_label,
                              ZoomaConfidence_str(zooma_entry_list[i].confidence),
                              zooma_entry_list[i].source>>],
         oxo_cells |-> [i \in 1..Len(oxo_mapping_list) |->
                            <<oxo_mapping_list[i].uri, oxo_mapping_list[i].ontology_label,
                              oxo_mapping_list[i].distance, oxo_mapping_list[i].query_id>>]]

\* output_trait_mapping: the rows it writes
output_trait_mapping(t) == {<<t.name, e.uri, e.label>> : e \in Range(t.finished_mapping_set)}

\* a variant of get_uris_for_oxo without the test on the confidence
get_uris_for_oxo_any_confidence(zooma_mapping_list) ==
    {e.uri : e \in Range(ZoomaEntries(zooma_mapping_list))}

\* get_uris_for_oxo
get_uris_for_oxo(zooma_mapping_list) ==
    LET high == SelectSeq(zooma_mapping_list, LAMBDA mapping : Lower(mapping.confidence) = str_high)
    IN  {e.uri : e \in Range(ZoomaEntries(high))}

\* The order in which a Python set of these uris is iterated.  It is fixed by the hashes of
\* the strings, which do not change during a run.
HashOrder == <<Uri_medgen_4, Uri_HP_3, Uri_mesh_7, Uri_Orphanet_2, Uri_EFO_1, Uri_EFO_5>>
SetIter(S) == SelectSeq(HashOrder, LAMBDA u : u \in S)

\* a variant of get_mappings_for_trait that passes the first result by
get_mappings_for_trait_but_first(zooma_response) ==
    [i \in 1..(Len(zooma_response) - 1) |->
        ZoomaMapping(zooma_response[i + 1].semanticTags, zooma_response[i + 1].propertyValue,
                     zooma_response[i + 1].confidence, zooma_response[i + 1].source)]

\* get_mappings_for_trait
get_mappings_for_trait(zooma_response) ==
    [i \in 1..Len(zooma_response) |->
        ZoomaMapping(zooma_response[i].semanticTags, zooma_response[i].propertyValue,
                     zooma_response[i].confidence, zooma_response[i].source)]

\* request_retry_helper and the loop of oxo_request_retry_helper: answers[i] is what the
\* i-th invocation of the function returns
RECURSIVE retry_loop(_, _, _)
retry_loop(answers, retry_num, retry_count) ==
    IF retry_num >= retry_count THEN [value |-> None, calls |-> retry_count]
    ELSE IF ~answers[retry_num + 1].none
         THEN [value |-> answers[retry_num + 1], calls |-> retry_num + 1]
         ELSE retry_loop(answers, retry_num + 1, retry_count)

\* a variant of request_retry_helper that makes every attempt and returns the last value
\* that is not None
request_retry_helper_every_attempt(answers, retry_count) ==
    LET good == {i \in 1..retry_count : ~answers[i].none}
    IN  IF good = {} THEN [value |-> None, calls |-> retry_count]
        ELSE [value |-> answers[CHOOSE i \in good : \A j \in good : j <= i], calls |-> retry_count]

\* a variant of request_retry_helper that makes one more attempt, which fails, after
\* retry_count attempts have failed
request_retry_helper_one_more(answers, retry_count) ==
    LET tried == retry_loop(answers, 0, retry_count)
    IN  IF tried.value.none THEN [value |-> None, calls |-> retry_count + 1] ELSE tried

request_retry_helper(answers, retry_count) == retry_loop(answers, 0, retry_count)

(***************************************************************************)
(* functools.lru_cache: a list of [key, val], least recently used first    *)
(***************************************************************************)
\* a variant of the cache lookup that does not compare the key
CacheLookup_any_key(cache, key) ==
    IF Len(cache) > 0 THEN [hit |-> TRUE, val |-> cache[Len(cache)].val] ELSE [hit |-> FALSE]

\* the lookup of the wrapper that lru_cache makes: the entry stored under the key
CacheLookup(cache, key) ==
    IF \E i \in 1..Len(cache) : cache[i].key = key
    THEN [hit |-> TRUE, val |-> cache[CHOOSE i \in 1..Len(cache) : cache[i].key = key].val]
    ELSE [hit |-> FALSE]

CacheHas(cache, key) == CacheLookup(cache, key).hit

CacheGet(cache, key) == CacheLookup(cache, key).val

\* a hit makes the entry the most recently used
CacheTouch(cache, key) ==
    SelectSeq(cache, LAMBDA e : e.key # key) \o SelectSeq(cache, LAMBDA e : e.key = key)

\* a miss stores the result and evicts the least recently used entry of a full cache
CachePut(cache, key, val) ==
    LET c == Append(cache, [key |-> key, val |-> val])
    IN  IF Len(c) > CacheSize THEN Tail(c) ELSE c

(***************************************************************************)
(* The state                                                               *)
(***************************************************************************)
VARIABLES
    pc,                 \* where main() is
    error,              \* the exception that ended main(), "" if none
    corpus_left,        \* items of trait_names_counter not yet taken by the loop of main
    traits_output,      \* traits for which output_trait has returned
    trait,              \* the Trait in hand
    mappings,           \* get_ontology_mappings: its local mappings (its return value)
    cursor,             \* the entry the enrichment loop in progress is at
    uris_for_oxo_set,   \* process_trait: its local uris_for_oxo_set
    oxo_input_id_list,  \* process_trait: its local oxo_input_id_list
    oxo_response,       \* get_oxo_results: searchResults of its local oxo_response
    oxo_result_list,    \* get_oxo_results: its return value, while being built
    calls,              \* requests sent to each remote service for the trait in hand, and
                        \* invocations of zooma_query_helper by its retry loop
    mapping_rows,       \* rows written to mapping_writer for the trait in hand
    curation_rows,      \* rows written to curation_writer for the trait in hand
    zooma_cache,        \* lru_cache of zooma_query_helper
    label_cache,        \* lru_cache of get_ontology_label_from_ols
    current_cache,      \* lru_cache of is_current_and_in_efo
    in_efo_cache,       \* lru_cache of is_in_efo
    outages,            \* episodes of remote failure so far in this run
    call,               \* a function called on its own: its name and arguments
    call_result         \* what that call returned, None while it has not

vars == <<pc, error, corpus_left, traits_output, trait, mappings, cursor,
          uris_for_oxo_set, oxo_input_id_list, oxo_response, oxo_result_list, calls, mapping_rows, curation_rows,
          zooma_cache, label_cache, current_cache, in_efo_cache, outages, call, call_result>>

\* the variables of main() and of the functions it calls
main_vars == <<pc, error, corpus_left, traits_output, trait, mappings, cursor,
               uris_for_oxo_set, oxo_input_id_list, oxo_response, oxo_result_list, calls, mapping_rows, curation_rows,
               zooma_cache, label_cache, current_cache, in_efo_cache, outages>>

\* the variables of a function called on its own
unit == <<call, call_result>>

caches == <<zooma_cache, label_cache, current_cache, in_efo_cache>>
oxo_locals == <<uris_for_oxo_set, oxo_input_id_list, oxo_response, oxo_result_list>>
rows == <<mapping_rows, curation_rows>>

\* the retry counts passed at lines 512, 589 and 753
RetryCount == 4

\* a trait name occurs at least once in the input
MaxFrequency == 1

NoCalls == [zooma |-> 0, zooma_attempts |-> 0, ols_terms |-> 0, ols_efo |-> 0, oxo |-> 0]

\* no function is called on its own while main() runs
NoCall == [fn |-> "main"]

\* before main() has done anything
Fresh ==
    /\ error = ""
    /\ traits_output = 0
    /\ trait = Trait(<<>>, 0)
    /\ mappings = Some(<<>>)
    /\ cursor = 0
    /\ uris_for_oxo_set = {}
    /\ oxo_input_id_list = <<>>
    /\ oxo_response = <<>>
    /\ oxo_result_list = Some(<<>>)
    /\ calls = NoCalls
    /\ mapping_rows = {}
    /\ curation_rows = <<>>
    /\ zooma_cache = <<>>
    /\ label_cache = <<>>
    /\ current_cache = <<>>
    /\ in_efo_cache = <<>>
    /\ outages = 0

Init ==
    /\ pc = "main"
    /\ corpus_left \in 1..MaxTraits
    /\ Fresh
    /\ call = NoCall
    /\ call_result = None

\* an exception propagates out of main()
Raise(e) ==
    /\ pc' = "aborted"
    /\ error' = e

(***************************************************************************)
(* main, lines 231-233, and get_ontology_mappings, lines 511-517: the loop *)
(* takes the next trait name and its frequency, and Zooma is queried       *)
(***************************************************************************)
\* what zooma_query_helper returns for url on a cache miss: the json of Zooma, or None
\* when the response cannot be decoded
ZoomaAnswers(url) ==
    {Some(zooma_service(url))} \cup (IF outages < MaxOutages THEN {None} ELSE {})

\* the positions <<i, j>> of the entries of a list of ZoomaMappings, in the order of the
\* loops of lines 519-520
ZoomaPositions(list) ==
    Concat([i \in 1..Len(list) |-> [j \in 1..Len(list[i].zooma_entry_list) |-> <<i, j>>]])

QueryZooma ==
    /\ pc = "main"
    /\ corpus_left > 0
    /\ \E trait_name \in TraitNames, freq \in 1..MaxFrequency :
        LET url == build_zooma_query(trait_name)
            hit == CacheHas(zooma_cache, url)
        IN  \E first \in (IF hit THEN {CacheGet(zooma_cache, url)} ELSE ZoomaAnswers(url)) :
            \* the first invocation leaves its result in the cache: the later invocations
            \* of the retry loop are hits that return it again
            LET retried == request_retry_helper([i \in 1..RetryCount |-> first], RetryCount)
                zooma_response == retried.value
            IN  /\ trait' = Trait(trait_name, freq)
                /\ zooma_cache' = IF hit THEN CacheTouch(zooma_cache, url)
                                  ELSE CachePut(zooma_cache, url, first)
                /\ outages' = IF ~hit /\ first.none THEN outages + 1 ELSE outages
                /\ calls' = [calls EXCEPT !.zooma = IF hit THEN 0 ELSE 1,
                                          !.zooma_attempts = retried.calls]
                /\ IF zooma_response.none
                   THEN /\ mappings' = None
                        /\ cursor' = 0
                        /\ pc' = "process_trait"
                   ELSE LET list == get_mappings_for_trait(zooma_response.val)
                        IN  /\ mappings' = Some(list)
                            /\ cursor' = IF ZoomaPositions(list) = <<>> THEN 0 ELSE 1
                            /\ pc' = IF ZoomaPositions(list) = <<>> THEN "process_trait"
                                     ELSE "enrich_zooma"
    /\ corpus_left' = corpus_left - 1
    /\ UNCHANGED <<error, traits_output, oxo_locals, rows, label_cache, current_cache, in_efo_cache>>
    /\ UNCHANGED unit

\* main: the loop is over
MainReturns ==
    /\ pc = "main"
    /\ corpus_left = 0
    /\ pc' = "done"
    /\ UNCHANGED <<error, corpus_left, traits_output, trait, mappings, cursor, oxo_locals,
                   calls, rows, caches, outages>>
    /\ UNCHANGED unit

(***************************************************************************)
(* Enrichment of one entry: lines 521-536 and 723-733                      *)
(***************************************************************************)
\* what OLS returns to ols_efo_query while it fails: an error status, or a body that is
\* not json
OlsEfoFailures == {[status_code |-> 500, json |-> None], [status_code |-> 200, json |-> None]}

\* is_current_and_in_efo, from the response of ols_efo_query; response.json() raises
\* when the body cannot be decoded
is_current_and_in_efo(response) ==
    IF response.status_code # 200 THEN [ok |-> TRUE, val |-> FALSE]
    ELSE IF response.json.none THEN [ok |-> FALSE, error |-> "JSONDecodeError"]
    ELSE [ok |-> TRUE, val |-> ~response.json.val.is_obsolete]

\* a variant of is_in_efo that takes an obsolete term as not in EFO
is_in_efo_unless_obsolete(response) ==
    /\ response.status_code = 200
    /\ ~response.json.none
    /\ ~response.json.val.is_obsolete

\* is_in_efo, from the response of ols_efo_query
is_in_efo(response) == response.status_code = 200

\* get_ontology_label_from_ols on a cache miss: the first `fails` invocations of
\* ols_query_helper fall in an outage
get_ontology_label_from_ols(uri, fails) ==
    request_retry_helper([i \in 1..RetryCount |-> IF i <= fails THEN None ELSE ols_terms_service(uri)],
                         RetryCount)

\* The enrichment of the entry with this uri, when a label lookup that misses the cache
\* meets `fails` failing invocations and the two requests of ols_efo_query, where they
\* are made, are answered by r1 and r2.
Enrichment(uri, fails, r1, r2) ==
    LET label_hit == CacheHas(label_cache, uri)
        looked_up == get_ontology_label_from_ols(uri, fails)
        label == IF label_hit THEN CacheGet(label_cache, uri) ELSE looked_up.value
        cur_hit == CacheHas(current_cache, uri)
        cur == IF cur_hit THEN [ok |-> TRUE, val |-> CacheGet(current_cache, uri)]
               ELSE is_current_and_in_efo(r1)
        asks_in_efo == cur.ok /\ ~cur.val
        in_hit == CacheHas(in_efo_cache, uri)
        uri_is_in_efo == IF in_hit THEN CacheGet(in_efo_cache, uri) ELSE is_in_efo(r2)
    IN  [label |-> label,
         \* invocations of ols_query_helper and of ols_efo_query
         ols_terms_calls |-> IF label_hit THEN 0 ELSE looked_up.calls,
         ols_efo_calls |-> (IF cur_hit THEN 0 ELSE 1) + (IF asks_in_efo /\ ~in_hit THEN 1 ELSE 0),
         label_cache |-> IF label_hit THEN CacheTouch(label_cache, uri)
                         ELSE CachePut(label_cache, uri, label),
         ok |-> cur.ok,
         error |-> IF cur.ok THEN "" ELSE cur.error,
         in_efo |-> IF ~cur.ok THEN FALSE ELSE IF cur.val THEN TRUE ELSE uri_is_in_efo,
         is_current |-> cur.ok /\ cur.val,
         current_cache |-> IF cur_hit THEN CacheTouch(current_cache, uri)
                           ELSE IF cur.ok THEN CachePut(current_cache, uri, cur.val)
                           ELSE current_cache,
         in_efo_cache |-> IF ~asks_in_efo THEN in_efo_cache
                          ELSE IF in_hit THEN CacheTouch(in_efo_cache, uri)
                          ELSE CachePut(in_efo_cache, uri, uri_is_in_efo),
         \* the requests that were made and were answered by a failure
         failed |-> (IF ~label_hit /\ fails > 0 THEN 1 ELSE 0)
                    + (IF ~cur_hit /\ r1 # ols_efo_service(uri) THEN 1 ELSE 0)
                    + (IF asks_in_efo /\ ~in_hit /\ r2 # ols_efo_service(uri) THEN 1 ELSE 0),
         \* the answers to requests that are not made are not a choice
         made |-> /\ (label_hit => fails = 0)
                  /\ (cur_hit => r1 = ols_efo_service(uri))
                  /\ (~asks_in_efo \/ in_hit => r2 = ols_efo_service(uri))]

\* the ways the enrichment of the entry with this uri can go
Enrichments(uri) ==
    {e \in {Enrichment(uri, fails, r1, r2) :
                fails \in 0..RetryCount,
                r1 \in {ols_efo_service(uri)} \cup OlsEfoFailures,
                r2 \in {ols_efo_service(uri)} \cup OlsEfoFailures} :
        e.made /\ outages + e.failed <= MaxOutages}

\* a variant of the enrichment without line 535: in_efo is assigned from is_in_efo alone
Enriched_without_535(entry, e) ==
    [entry EXCEPT !.ontology_label = IF e.label.none THEN @ ELSE e.label.val,
                  !.in_efo = e.in_efo /\ ~e.is_current,
                  !.is_current = e.is_current]

\* a variant of the enrichment that sets in_efo from is_current_and_in_efo alone
Enriched_current_only(entry, e) ==
    [entry EXCEPT !.ontology_label = IF e.label.none THEN @ ELSE e.label.val,
                  !.in_efo = e.is_current,
                  !.is_current = e.is_current]

\* the entry after lines 521-536 (723-733 for an OxOMapping)
Enriched(entry, e) ==
    [entry EXCEPT !.ontology_label = IF e.label.none THEN @ ELSE e.label.val,
                  !.in_efo = e.in_efo,
                  !.is_current = e.is_current]

\* get_ontology_mappings, lines 519-536: one iteration of the inner loop
EnrichZoomaEntry ==
    /\ pc = "enrich_zooma"
    /\ LET positions == ZoomaPositions(mappings.val)
           i == positions[cursor][1]
           j == positions[cursor][2]
           zooma_entry == mappings.val[i].zooma_entry_list[j]
       IN  \E e \in Enrichments(zooma_entry.uri) :
            /\ label_cache' = e.label_cache
            /\ current_cache' = e.current_cache
            /\ in_efo_cache' = e.in_efo_cache
            /\ outages' = outages + e.failed
            /\ calls' = [calls EXCEPT !.ols_terms = @ + e.ols_terms_calls,
                                      !.ols_efo = @ + e.ols_efo_calls]
            /\ IF ~e.ok
               THEN /\ Raise(e.error)
                    /\ UNCHANGED <<mappings, cursor>>
               ELSE /\ mappings' = Some([mappings.val EXCEPT ![i].zooma_entry_list[j] =
                                            Enriched(zooma_entry, e)])
                    /\ cursor' = IF cursor = Len(positions) THEN 0 ELSE cursor + 1
                    /\ pc' = IF cursor = Len(positions) THEN "process_trait" ELSE "enrich_zooma"
                    /\ error' = error
    /\ UNCHANGED <<corpus_left, traits_output, trait, oxo_locals, rows, zooma_cache>>
    /\ UNCHANGED unit

(***************************************************************************)
(* process_trait, lines 344-356                                            *)
(***************************************************************************)
\* a variant of the condition of lines 347-351 without its third disjunct
returns_before_oxo_unless_current(t) ==
    \/ is_finished(t)
    \/ Len(t.zooma_mapping_list.val) = 0

\* the condition of lines 347-351, under which process_trait returns without OxO
returns_before_oxo(t) ==
    \/ is_finished(t)
    \/ Len(t.zooma_mapping_list.val) = 0
    \/ \E entry \in Range(ZoomaEntries(t.zooma_mapping_list.val)) : entry.is_current

ProcessZooma ==
    /\ pc = "process_trait"
    /\ LET assigned == [trait EXCEPT !.zooma_mapping_list = mappings]
       IN  IF mappings.none
           THEN \* process_zooma_mappings iterates None
                /\ trait' = assigned
                /\ Raise("TypeError")
                /\ UNCHANGED <<uris_for_oxo_set, oxo_input_id_list>>
           ELSE LET processed == [assigned EXCEPT !.finished_mapping_set = process_zooma_mappings(assigned)]
                    uri_set == get_uris_for_oxo(processed.zooma_mapping_list.val)
                    ids == uris_to_oxo_format(SetIter(uri_set))
                IN  /\ trait' = processed
                    /\ IF returns_before_oxo(processed)
                       THEN /\ pc' = "output_trait"
                            /\ UNCHANGED <<error, uris_for_oxo_set, oxo_input_id_list>>
                       ELSE /\ uris_for_oxo_set' = uri_set
                            /\ IF Cardinality(uri_set) = 0
                               THEN /\ pc' = "output_trait"
                                    /\ UNCHANGED <<error, oxo_input_id_list>>
                               ELSE IF ~ids.ok
                               THEN /\ Raise(ids.error)
                                    /\ UNCHANGED <<oxo_input_id_list>>
                               ELSE /\ oxo_input_id_list' = ids.res
                                    /\ pc' = "get_oxo_results"
                                    /\ error' = error
    /\ mappings' = Some(<<>>)
    /\ UNCHANGED <<corpus_left, traits_output, cursor, oxo_response, oxo_result_list, calls,
                   rows, caches, outages>>
    /\ UNCHANGED unit

(***************************************************************************)
(* get_oxo_results and get_oxo_results_from_response                       *)
(***************************************************************************)
\* the positions <<r, m>> of the mapping responses of a list of search results, in the
\* order of the loops of lines 708-715 (a result without mappings is skipped)
OxOPositions(results) ==
    Concat([r \in 1..Len(results) |->
                [m \in 1..Len(results[r].mappingResponseList) |-> <<r, m>>]])

\* get_oxo_results, lines 752-756: the first `fails` invocations of oxo_query_helper get
\* a response that cannot be decoded
QueryOxO ==
    /\ pc = "get_oxo_results"
    /\ \E fails \in 0..RetryCount :
        /\ fails > 0 => outages < MaxOutages
        /\ LET answers == [i \in 1..RetryCount |->
                              IF i <= fails THEN None ELSE Some(oxo_service(oxo_input_id_list))]
               returned == request_retry_helper(answers, RetryCount)
           IN  /\ calls' = [calls EXCEPT !.oxo = @ + returned.calls]
               /\ outages' = IF fails > 0 THEN outages + 1 ELSE outages
               /\ IF returned.value.none
                  THEN /\ oxo_result_list' = None
                       /\ oxo_response' = <<>>
                       /\ cursor' = 0
                       /\ pc' = "process_oxo"
                  ELSE /\ oxo_result_list' = Some(<<>>)
                       /\ oxo_response' = returned.value.val
                       /\ cursor' = IF OxOPositions(returned.value.val) = <<>> THEN 0 ELSE 1
                       /\ pc' = IF OxOPositions(returned.value.val) = <<>> THEN "process_oxo"
                                ELSE "parse_oxo"
    /\ UNCHANGED <<error, corpus_left, traits_output, trait, mappings, uris_for_oxo_set,
                   oxo_input_id_list, rows, caches>>
    /\ UNCHANGED unit

\* get_oxo_results_from_response: one iteration of the inner loop (lines 715-735), with
\* lines 711-714 before the first mapping of a result.  The OxOResult is put into the
\* list when it is made; the code appends it after its last mapping (line 737), and the
\* list is not read before the loops are over.
ParseOxOMapping ==
    /\ pc = "parse_oxo"
    /\ LET positions == OxOPositions(oxo_response)
           r == positions[cursor][1]
           m == positions[cursor][2]
           result == oxo_response[r]
           mapping_response == result.mappingResponseList[m]
           oxo_result == OxOResult(result.queryId, result.label, result.curie)
           oxo_mapping == OxOMapping(mapping_response.label, mapping_response.curie,
                                     mapping_response.distance, result.queryId)
           list == IF m = 1 THEN Append(oxo_result_list.val, oxo_result.val)
                   ELSE oxo_result_list.val
       IN  IF m = 1 /\ ~oxo_result.ok
           THEN /\ Raise(oxo_result.error)
                /\ UNCHANGED <<oxo_result_list, cursor, label_cache, current_cache,
                               in_efo_cache, outages, calls>>
           ELSE IF ~oxo_mapping.ok
           THEN /\ Raise(oxo_mapping.error)
                /\ UNCHANGED <<oxo_result_list, cursor, label_cache, current_cache,
                               in_efo_cache, outages, calls>>
           ELSE \E e \in Enrichments(oxo_mapping.val.uri) :
                /\ label_cache' = e.label_cache
                /\ current_cache' = e.current_cache
                /\ in_efo_cache' = e.in_efo_cache
                /\ outages' = outages + e.failed
                /\ calls' = [calls EXCEPT !.ols_terms = @ + e.ols_terms_calls,
                                          !.ols_efo = @ + e.ols_efo_calls]
                /\ IF ~e.ok
                   THEN /\ Raise(e.error)
                        /\ UNCHANGED <<oxo_result_list, cursor>>
                   ELSE /\ oxo_result_list' =
                              Some([list EXCEPT ![Len(list)].oxo_mapping_list =
                                        Append(@, Enriched(oxo_mapping.val, e))])
                        /\ cursor' = IF cursor = Len(positions) THEN 0 ELSE cursor + 1
                        /\ pc' = IF cursor = Len(positions) THEN "process_oxo" ELSE "parse_oxo"
                        /\ error' = error
    /\ UNCHANGED <<corpus_left, traits_output, trait, mappings, uris_for_oxo_set,
                   oxo_input_id_list, oxo_response, rows, zooma_cache>>
    /\ UNCHANGED unit

(***************************************************************************)
(* process_trait, lines 357-361                                            *)
(***************************************************************************)
ProcessOxO ==
    /\ pc = "process_oxo"
    /\ LET assigned == [trait EXCEPT !.oxo_xref_list = oxo_result_list]
       IN  IF oxo_result_list.none
           THEN \* process_oxo_mappings iterates None
                /\ trait' = assigned
                /\ Raise("TypeError")
           ELSE /\ trait' = [assigned EXCEPT !.finished_mapping_set = process_oxo_mappings(assigned)]
                /\ pc' = "output_trait"
                /\ error' = error
    /\ oxo_result_list' = Some(<<>>)
    /\ oxo_response' = <<>>
    /\ uris_for_oxo_set' = {}
    /\ oxo_input_id_list' = <<>>
    /\ UNCHANGED <<corpus_left, traits_output, mappings, cursor, calls, rows, caches, outages>>
    /\ UNCHANGED unit

(***************************************************************************)
(* output_trait                                                            *)
(***************************************************************************)
OutputTrait ==
    /\ pc = "output_trait"
    /\ IF is_finished(trait)
       THEN /\ mapping_rows' = mapping_rows \cup output_trait_mapping(trait)
            /\ UNCHANGED curation_rows
       ELSE /\ curation_rows' = Append(curation_rows, output_for_curation(trait))
            /\ UNCHANGED mapping_rows
    /\ traits_output' = traits_output + 1
    /\ pc' = "output_done"
    /\ UNCHANGED <<error, corpus_left, trait, mappings, cursor, oxo_locals, calls, caches, outages>>
    /\ UNCHANGED unit

\* main, line 231: the body of the loop has returned and the loop goes to its next
\* iteration; the Trait of this iteration is dropped, and the rows of the next trait are
\* counted from here
LoopEnd ==
    /\ pc = "output_done"
    /\ pc' = "main"
    /\ trait' = Trait(<<>>, 0)
    /\ calls' = NoCalls
    /\ mapping_rows' = {}
    /\ curation_rows' = <<>>
    /\ UNCHANGED <<error, corpus_left, traits_output, mappings, cursor, oxo_locals,
                   caches, outages>>
    /\ UNCHANGED unit

Next ==
    \/ QueryZooma
    \/ MainReturns
    \/ EnrichZoomaEntry
    \/ ProcessZooma
    \/ QueryOxO
    \/ ParseOxOMapping
    \/ ProcessOxO
    \/ OutputTrait
    \/ LoopEnd

Spec == Init /\ [][Next]_vars

(***************************************************************************)
(* The functions OntologyUri, request_retry_helper and uris_to_oxo_format, *)
(* each called on its own with arguments from a bounded set                *)
(***************************************************************************)
id_199318 == <<"1","9","9","3","1","8">>
id_HP0002066 == <<"H","P","0","0","0","2","0","6","6">>
id_HP_colon_0002066 == <<"H","P",":","0","0","0","2","0","6","6">>
id_HP == <<"H","P">>
UnitIds == {id_199318, id_HP0002066, id_HP_colon_0002066, id_HP, <<>>}

db_mondo == <<"m","o","n","d","o">>
db_hpo == <<"h","p","o">>

\* the first character in upper case
Capitalize(s) == IF s = <<>> THEN s ELSE <<UpperChar(s[1])>> \o Tail(s)

\* the names of the dict and two names outside it, in lower case, in upper case and capitalized
UnitDbs ==
    LET names == DOMAIN db_to_uri_dict \cup {db_mondo, db_hpo}
    IN  names \cup {Upper(n) : n \in names} \cup {Capitalize(n) : n \in names}

\* what a function returns to request_retry_helper
UnitValues == {None, Some("a"), Some("b")}

\* retry counts up to the one the program passes (RetryCount)
UnitRetryCounts == 0..RetryCount

Uri_omim_entry_6 == <<"h","t","t","p",":","/","/","w","w","w",".","o","m","i","m",".","o","r","g","/","e","n","t","r","y","/","6">>
Uri_EFO_1_slash == Uri_EFO_1 \o <<"/">>
UnitUris == {Uri_EFO_1, Uri_Orphanet_2, Uri_HP_3, Uri_medgen_4, Uri_omim_entry_6, Uri_mesh_7,
             Uri_EFO_1_slash}

\* uri sets of at most MaxGroups uris, in an order of iteration
UnitUriLists ==
    {l \in SeqsUpTo(UnitUris, MaxGroups) : \A i, j \in 1..Len(l) : i # j => l[i] # l[j]}

\* the responses of OLS to ols_efo_query: those of the universe, and the failures
UnitResponses == {ols_efo_service(uri) : uri \in UnitUris} \cup OlsEfoFailures

UnitInit ==
    /\ pc = "done"
    /\ corpus_left = 0
    /\ Fresh
    /\ call_result = None
    /\ \/ call \in [fn : {"OntologyUri"}, id_ : UnitIds, db : UnitDbs]
       \/ call \in [fn : {"request_retry_helper"}, answers : [1..RetryCount -> UnitValues],
                    retry_count : UnitRetryCounts]
       \/ call \in [fn : {"uris_to_oxo_format"}, uri_list : UnitUriLists]
       \/ call \in [fn : {"is_current_and_in_efo", "is_in_efo"}, response : UnitResponses]

CallOntologyUri ==
    /\ call.fn = "OntologyUri"
    /\ call_result.none
    /\ call_result' = Some(OntologyUri(call.id_, call.db))
    /\ UNCHANGED <<main_vars, call>>

CallRequestRetryHelper ==
    /\ call.fn = "request_retry_helper"
    /\ call_result.none
    /\ call_result' = Some(request_retry_helper(call.answers, call.retry_count))
    /\ UNCHANGED <<main_vars, call>>

CallUrisToOxoFormat ==
    /\ call.fn = "uris_to_oxo_format"
    /\ call_result.none
    /\ call_result' = Some(uris_to_oxo_format(call.uri_list))
    /\ UNCHANGED <<main_vars, call>>

\* is_current_and_in_efo(uri), ols_efo_query answering with call.response
CallIsCurrentAndInEfo ==
    /\ call.fn = "is_current_and_in_efo"
    /\ call_result.none
    /\ call_result' = Some(is_current_and_in_efo(call.response))
    /\ UNCHANGED <<main_vars, call>>

\* is_in_efo(uri), ols_efo_query answering with call.response
CallIsInEfo ==
    /\ call.fn = "is_in_efo"
    /\ call_result.none
    /\ call_result' = Some(is_in_efo(call.response))
    /\ UNCHANGED <<main_vars, call>>

UnitNext ==
    \/ CallOntologyUri
    \/ CallRequestRetryHelper
    \/ CallUrisToOxoFormat
    \/ CallIsCurrentAndInEfo
    \/ CallIsInEfo

UnitSpec == UnitInit /\ [][UnitNext]_vars

(***************************************************************************)
(* Properties                                                              *)
(***************************************************************************)
\* process_trait has assigned and processed the Zooma mappings of the trait in hand
AfterZooma == pc \in {"get_oxo_results", "parse_oxo", "process_oxo", "output_trait", "output_done"}

\* process_trait has assigned and processed the OxO results of the trait in hand
AfterOxO == pc \in {"output_trait", "output_done"} /\ calls.oxo > 0

TraitZoomaEntries == Range(ZoomaEntries(trait.zooma_mapping_list.val))
TraitOxOMappings == Range(OxOMappings(trait.oxo_xref_list.val))

\* C1: once output_trait has returned for a trait, either its finished_mapping_set is
\* non-empty and exactly its finished-mapping rows were written and no curation row, or
\* the set is empty and exactly one curation row, for this trait, was written and no
\* mapping row; never both, never neither.
C1_ExactlyOneKindOfOutput ==
    pc = "output_done" =>
        LET finished_rows ==
                /\ Range(trait.finished_mapping_set) # {}
                /\ mapping_rows = {<<trait.name, e.uri, e.label>> : e \in Range(trait.finished_mapping_set)}
                /\ curation_rows = <<>>
            curation_row ==
                /\ Range(trait.finished_mapping_set) = {}
                /\ Len(curation_rows) = 1
                /\ curation_rows[1].name = trait.name
                /\ mapping_rows = {}
        IN  (finished_rows \/ curation_row) /\ ~(finished_rows /\ curation_row)

\* a trait that finished through OxO has its mapping rows written
C1_Witness ==
    /\ pc = "output_done"
    /\ calls.oxo > 0
    /\ Range(trait.finished_mapping_set) # {}
    /\ mapping_rows # {}
    /\ curation_rows = <<>>

\* C2: after a successful primary query and until OxO results are processed, the
\* finished set is exactly the set of (uri, ontology_label) of the entries of HIGH
\* confidence that are in EFO and current (so the trait is finished iff there is one);
\* entries of LOW, MEDIUM or GOOD confidence add nothing.  When OxO was consulted, no
\* HIGH entry was in EFO and current.
C2_FinishedFromHighConfidenceOnly ==
    AfterZooma =>
        LET high_current == {e \in TraitZoomaEntries :
                                e.confidence = ZoomaConfidence[conf_HIGH] /\ e.in_efo /\ e.is_current}
            pairs == {[uri |-> e.uri, label |-> e.ontology_label] : e \in high_current}
        IN  IF AfterOxO THEN pairs = {}
            ELSE /\ Range(trait.finished_mapping_set) = pairs
                 /\ is_finished(trait) <=> high_current # {}

\* a GOOD entry that is in EFO and current, beside a HIGH entry that is not: not finished
C2_Witness ==
    /\ pc = "output_trait"
    /\ \E e \in TraitZoomaEntries :
            e.confidence = ZoomaConfidence[conf_GOOD] /\ e.in_efo /\ e.is_current
    /\ \E e \in TraitZoomaEntries : e.confidence = ZoomaConfidence[conf_HIGH] /\ ~e.is_current
    /\ Range(trait.finished_mapping_set) = {}

\* C3: once the OxO results are processed, the finished set is exactly the set of
\* (uri, ontology_label) of the OxO mappings that are in EFO, current and at distance 1:
\* each of those finishes the trait, a mapping at another distance never does.
C3_DistanceRule ==
    AfterOxO =>
        LET direct == {m \in TraitOxOMappings : m.in_efo /\ m.is_current /\ m.distance = 1}
        IN  /\ Range(trait.finished_mapping_set) = {[uri |-> m.uri, label |-> m.ontology_label] : m \in direct}
            /\ is_finished(trait) <=> direct # {}

\* OxO gave a current EFO term at distance 2 and another at distance 1: the trait is
\* finished with the second alone
C3_Witness ==
    /\ AfterOxO
    /\ \E m \in TraitOxOMappings :
            /\ m.in_efo /\ m.is_current /\ m.distance = 2
            /\ [uri |-> m.uri, label |-> m.ontology_label] \notin Range(trait.finished_mapping_set)
    /\ \E m \in TraitOxOMappings :
            /\ m.in_efo /\ m.is_current /\ m.distance = 1
            /\ Range(trait.finished_mapping_set) = {[uri |-> m.uri, label |-> m.ontology_label]}

C5_PrimaryFailureNeedsCuration ==
    [][(pc = "process_trait" /\ mappings.none) =>
            /\ pc' = "output_trait"
            /\ error' = ""
            /\ ~is_finished(trait')
            /\ calls'.oxo = 0]_vars

\* C6: when get_oxo_results has returned None (the cross-reference call failed entirely),
\* the next step of process_trait returns without error: the trait is not finished, keeps
\* its primary candidates, and goes on to output_trait.
C6_OxOFailureNeedsCuration ==
    [][(pc = "process_oxo" /\ oxo_result_list.none) =>
            /\ pc' = "output_trait"
            /\ error' = ""
            /\ ~is_finished(trait')
            /\ trait'.zooma_mapping_list = trait.zooma_mapping_list]_vars

\* C7: a remote failure never aborts the run: main is never ended by the exception that
\* an absent result (TypeError) or an undecodable response (JSONDecodeError) raises
\* after a service has failed.
C7_RemoteFailureNeverAborts ==
    ~(pc = "aborted" /\ error \in {"TypeError", "JSONDecodeError"} /\ outages > 0)

\* What the services, as fixed functions of the request, make of a trait name when no
\* cache holds anything: every lookup goes to its service.
ColdEnrichment(uri) ==
    LET response == ols_efo_service(uri)
        cur == is_current_and_in_efo(response)
    IN  [label |-> request_retry_helper([i \in 1..RetryCount |-> ols_terms_service(uri)],
                                        RetryCount).value,
         in_efo |-> IF cur.val THEN TRUE ELSE is_in_efo(response),
         is_current |-> cur.val]

ColdZoomaMapping(mapping) ==
    [mapping EXCEPT !.zooma_entry_list =
        [j \in 1..Len(mapping.zooma_entry_list) |->
            Enriched(mapping.zooma_entry_list[j], ColdEnrichment(mapping.zooma_entry_list[j].uri))]]

ColdZooma(trait_name) ==
    LET list == get_mappings_for_trait(zooma_service(build_zooma_query(trait_name)))
    IN  [i \in 1..Len(list) |-> ColdZoomaMapping(list[i])]

ColdOxOResult(result) ==
    [OxOResult(result.queryId, result.label, result.curie).val EXCEPT !.oxo_mapping_list =
        [m \in 1..Len(result.mappingResponseList) |->
            LET mapping_response == result.mappingResponseList[m]
                oxo_mapping == OxOMapping(mapping_response.label, mapping_response.curie,
                                          mapping_response.distance, result.queryId).val
            IN  Enriched(oxo_mapping, ColdEnrichment(oxo_mapping.uri))]]

ColdOxO(id_list) ==
    LET response == oxo_service(id_list)
    IN  [r \in 1..Len(response) |-> ColdOxOResult(response[r])]

ColdTrait(trait_name, frequency) ==
    LET assigned == [Trait(trait_name, frequency) EXCEPT !.zooma_mapping_list = Some(ColdZooma(trait_name))]
        processed == [assigned EXCEPT !.finished_mapping_set = process_zooma_mappings(assigned)]
        uri_set == get_uris_for_oxo(processed.zooma_mapping_list.val)
        with_oxo == [processed EXCEPT !.oxo_xref_list =
                        Some(ColdOxO(uris_to_oxo_format(SetIter(uri_set)).res))]
    IN  IF returns_before_oxo(processed) \/ uri_set = {}
        THEN processed
        ELSE [with_oxo EXCEPT !.finished_mapping_set = process_oxo_mappings(with_oxo)]

\* C8: while the services answer as fixed functions of the request (no request has
\* failed), a trait that process_trait has resolved, whatever the caches held when it
\* began, has the finished-mapping set and the lists of curation candidates that the
\* resolution of its name with all caches cold gives.
C8_WarmCacheSameResult ==
    (pc \in {"output_trait", "output_done"} /\ outages = 0) =>
        LET cold == ColdTrait(trait.name, trait.frequency)
        IN  /\ Range(trait.finished_mapping_set) = Range(cold.finished_mapping_set)
            /\ get_zooma_mappings_for_curation(trait) = get_zooma_mappings_for_curation(cold)
            /\ get_oxo_mappings_for_curation(trait) = get_oxo_mappings_for_curation(cold)

\* the second trait of the run was resolved from the caches alone: no request was made,
\* and it has mappings
C8_Witness ==
    /\ pc = "output_trait"
    /\ outages = 0
    /\ traits_output = 1
    /\ calls.zooma = 0 /\ calls.ols_terms = 0 /\ calls.ols_efo = 0 /\ calls.oxo = 0
    /\ TraitZoomaEntries # {}

\* C9: in the list that get_zooma_mappings_for_curation returns, of two entries that
\* differ in their confidence only, the one of the higher confidence comes first,
\* whatever their order in trait.zooma_mapping_list.
C9_HigherConfidenceFirst ==
    AfterZooma =>
        LET zooma_entry_list == get_zooma_mappings_for_curation(trait)
        IN  \A i, j \in 1..Len(zooma_entry_list) :
                (/\ i < j
                 /\ zooma_entry_list[i].confidence # zooma_entry_list[j].confidence
                 /\ [zooma_entry_list[i] EXCEPT !.confidence = zooma_entry_list[j].confidence]
                        = zooma_entry_list[j])
                => zooma_entry_list[i].confidence > zooma_entry_list[j].confidence

\* Zooma gave the entry of the lower confidence first, and the curation row that was
\* written has the one of the higher confidence first
C9_Witness ==
    /\ pc = "output_done"
    /\ Len(curation_rows) = 1
    /\ LET given == SelectSeq(ZoomaEntries(trait.zooma_mapping_list.val),
                              LAMBDA e : e.in_efo /\ e.is_current)
           cells == curation_rows[1].zooma_cells
       IN  /\ Len(given) = 2
           /\ given[1].confidence < given[2].confidence
           /\ given[1].uri = given[2].uri
           /\ Len(cells) = 2
           /\ cells[1][3] = ZoomaConfidence_str(given[2].confidence)
           /\ cells[2][3] = ZoomaConfidence_str(given[1].confidence)

\* C10: in the list that get_oxo_mappings_for_curation returns, a mapping of a smaller
\* distance comes before a mapping of a larger distance; and on the mappings that OxO
\* gave for the trait, OxOMapping.__lt__ is the strict weak order of the key (distance
\* reversed, in_efo, is_current): irreflexive, transitive, and with a transitive
\* incomparability.
C10_CloserFirst ==
    AfterOxO =>
        LET oxo_mapping_list == get_oxo_mappings_for_curation(trait)
            given == TraitOxOMappings
            incomparable(a, b) == ~OxOMapping_lt(a, b) /\ ~OxOMapping_lt(b, a)
        IN  /\ \A i, j \in 1..Len(oxo_mapping_list) :
                    oxo_mapping_list[i].distance < oxo_mapping_list[j].distance => i < j
            /\ \A a, b \in given :
                    /\ OxOMapping_lt(a, b) <=> (0 - a.distance < 0 - b.distance
                                                \/ (a.distance = b.distance
                                                    /\ BoolInt(a.in_efo) < BoolInt(b.in_efo))
                                                \/ (a.distance = b.distance
                                                    /\ a.in_efo = b.in_efo
                                                    /\ BoolInt(a.is_current) < BoolInt(b.is_current)))
                    /\ ~OxOMapping_lt(a, a)
                    /\ \A c \in given :
                        /\ (OxOMapping_lt(a, b) /\ OxOMapping_lt(b, c)) => OxOMapping_lt(a, c)
                        /\ (incomparable(a, b) /\ incomparable(b, c)) => incomparable(a, c)

\* OxO gave the mapping at the larger distance first, and the curation row that was
\* written has the closer one first
C10_Witness ==
    /\ pc = "output_done"
    /\ calls.oxo > 0
    /\ Len(curation_rows) = 1
    /\ LET given == SelectSeq(OxOMappings(trait.oxo_xref_list.val),
                              LAMBDA m : m.in_efo /\ m.is_current)
           cells == curation_rows[1].oxo_cells
       IN  /\ Len(given) = 2
           /\ given[1].distance > given[2].distance
           /\ Len(cells) = 2
           /\ cells[1][3] = given[2].distance
           /\ cells[2][3] = given[1].distance

\* s ends with the characters of t
EndsWith(s, t) == Len(s) >= Len(t) /\ SubSeq(s, Len(s) - Len(t) + 1, Len(s)) = t

\* the first n characters of s removed
DropFirst(s, n) == [i \in 1..(IF Len(s) > n THEN Len(s) - n ELSE 0) |-> s[i + n]]

OntologyUriReturned == call.fn = "OntologyUri" /\ ~call_result.none

\* OntologyUri gives the template of the database, in whatever case its name is written,
\* followed by the identifier, without its first three characters for the long name
\* "human phenotype ontology" alone
TemplateRule ==
    LET template == db_to_uri_dict[Lower(call.db)]
        uri == call_result.val.uri
    IN  /\ call_result.val.ok
        /\ Lower(call.db) # db_human_phenotype_ontology => uri = template \o call.id_
        /\ Lower(call.db) = db_human_phenotype_ontology => uri = template \o DropFirst(call.id_, 3)
        /\ (call.id_ = id_199318 /\ Lower(call.db) = db_orphanet)
                => EndsWith(uri, <<"O","r","p","h","a","n","e","t","_">> \o id_199318)
        /\ (call.id_ = id_HP0002066 /\ Lower(call.db) = db_hp)
                => EndsWith(uri, <<"H","P","_">> \o id_HP0002066)

\* C11: for a database name of the fixed set, in whatever case it is written, OntologyUri
\* gives the template of the database followed by the identifier unchanged ("199318" with
\* orphanet gives ...Orphanet_199318); for the long name "human phenotype ontology" alone
\* the first three characters of the identifier are removed first, so that "HP:0002066"
\* gives ...HP_0002066 and "HP0002066" gives ...HP_002066; for "hp" they are not removed.
C11_UriFormatting ==
    (OntologyUriReturned /\ Lower(call.db) \in DOMAIN db_to_uri_dict) =>
        /\ TemplateRule
        /\ (call.id_ = id_HP_colon_0002066 /\ Lower(call.db) = db_human_phenotype_ontology)
                => EndsWith(call_result.val.uri, <<"/","H","P","_","0","0","0","2","0","6","6">>)
        /\ (call.id_ = id_HP0002066 /\ Lower(call.db) = db_human_phenotype_ontology)
                => EndsWith(call_result.val.uri, <<"/","H","P","_","0","0","2","0","6","6">>)

\* "HP:0002066" with the long name written in upper case has given a uri ending in HP_0002066
C11_Witness ==
    /\ OntologyUriReturned
    /\ call.id_ = id_HP_colon_0002066
    /\ call.db = Upper(db_human_phenotype_ontology)
    /\ call_result.val.ok
    /\ EndsWith(call_result.val.uri, <<"/","H","P","_","0","0","0","2","0","6","6">>)

\* C11 as it is stated: the same rule, with "HP0002066" and the long name giving a uri
\* that ends in HP_0002066.
C11_AsStated ==
    (OntologyUriReturned /\ Lower(call.db) \in DOMAIN db_to_uri_dict) =>
        /\ TemplateRule
        /\ (call.id_ = id_HP0002066 /\ Lower(call.db) = db_human_phenotype_ontology)
                => EndsWith(call_result.val.uri, <<"/","H","P","_","0","0","0","2","0","6","6">>)

\* the database of a curie "DB:ID" is one of OntologyUri.db_to_uri_dict
KnownCurie(curie) == Lower(ButLastField(curie, ":")) \in DOMAIN db_to_uri_dict

\* the mapping of the OxO response that get_oxo_results_from_response is at
MappingAtCursor ==
    LET at == OxOPositions(oxo_response)[cursor]
    IN  oxo_response[at[1]].mappingResponseList[at[2]]

\* the OxOMappings made so far for the trait in hand
OxOMappingsMade ==
    (IF oxo_result_list.none THEN {} ELSE Range(OxOMappings(oxo_result_list.val)))
    \cup (IF trait.oxo_xref_list.none THEN {} ELSE TraitOxOMappings)

\* C12: a database name outside the fixed set gives no OntologyUri: every OxOMapping that
\* exists has a database of the set and the uri of its template; the mapping of an OxO
\* response whose curie has another prefix is never passed by (the loop is at it or
\* before it), and a KeyError that ended main() left the loop at a mapping with an
\* unknown prefix, with no OxOMapping made for it.
C12_UnknownDatabaseSurfaces ==
    /\ \A m \in OxOMappingsMade :
            /\ Lower(m.db) \in DOMAIN db_to_uri_dict
            /\ m.uri = db_to_uri_dict[Lower(m.db)] \o m.id_
    /\ pc = "parse_oxo" =>
            \A k \in 1..(cursor - 1) :
                LET at == OxOPositions(oxo_response)[k]
                IN  KnownCurie(oxo_response[at[1]].mappingResponseList[at[2]].curie)
    /\ (pc = "aborted" /\ error = "KeyError" /\ cursor > 0 /\ oxo_response # <<>>) =>
            /\ ~KnownCurie(MappingAtCursor.curie)
            /\ Len(OxOMappings(oxo_result_list.val)) = cursor - 1
    /\ pc \in {"process_oxo", "output_trait", "output_done"} =>
            \A m \in OxOMappingsMade : m.query_id # curie_MeSH_7

\* OxO gave a mapping to MONDO:8 after one to EFO:1: the KeyError ended main(), and the
\* only OxOMapping made is the one of EFO:1
C12_Witness ==
    /\ pc = "aborted"
    /\ error = "KeyError"
    /\ cursor = 2
    /\ MappingAtCursor.curie = curie_MONDO_8
    /\ {m.uri : m \in OxOMappingsMade} = {Uri_EFO_1}

RetryReturned == call.fn = "request_retry_helper" /\ ~call_result.none

\* C13: request_retry_helper(f, n, url) invokes f at most n times; it returns the first
\* value that is not None and invokes f no more after it; when the n invocations all
\* return None it returns None; with n = 0 it returns None without invoking f.
C13_RetryContract ==
    RetryReturned =>
        LET n == call.retry_count
            good == {i \in 1..n : ~call.answers[i].none}
            first == CHOOSE i \in good : \A j \in good : i <= j
            got == call_result.val
        IN  /\ got.calls <= n
            /\ good # {} => (got.value = call.answers[first] /\ got.calls = first)
            /\ good = {} => (got.value = None /\ got.calls = n)
            /\ n = 0 => (got.value = None /\ got.calls = 0)

\* of four attempts the third was the first to return a value, "a": it was returned, and
\* the fourth attempt, which would have returned "b", was not made
C13_Witness ==
    /\ RetryReturned
    /\ call.retry_count = RetryCount
    /\ call.answers = <<None, None, Some("a"), Some("b")>>
    /\ call_result.val = [value |-> Some("a"), calls |-> 3]

\* C14: the checks is_current_and_in_efo and is_in_efo make their request through the
\* retry executor: while fewer requests have failed in the run than the executor makes
\* attempts, a failed attempt was followed by another one, and what the two caches
\* record for a uri is what OLS answers for it.
C14_EfoChecksRetried ==
    outages < RetryCount =>
        /\ \A i \in 1..Len(current_cache) :
                current_cache[i].val = is_current_and_in_efo(ols_efo_service(current_cache[i].key)).val
        /\ \A i \in 1..Len(in_efo_cache) :
                in_efo_cache[i].val = is_in_efo(ols_efo_service(in_efo_cache[i].key))

\* C15: each attempt of the primary query reaches Zooma again: while fewer requests have
\* failed in the run than get_ontology_mappings makes attempts, an undecodable response
\* was followed by an attempt that Zooma answered, and get_ontology_mappings returns the
\* mappings of that answer, not None.
C15_RetryReachesZoomaAgain ==
    (pc = "process_trait" /\ outages < RetryCount) =>
        /\ ~mappings.none
        /\ Len(mappings.val) = Len(zooma_service(build_zooma_query(trait.name)))

UrisToOxoReturned == call.fn = "uris_to_oxo_format" /\ ~call_result.none

\* the second-to-last path segment of a uri, in lower case
SourceSegment(uri) == Lower(LastField(ButLastField(RStripSlash(uri), "/"), "/"))

\* the identifier "PREFIX:digits" of a uri whose source is in the prefix table
OxoIdentifier(uri) ==
    URI_DB_TO_DB_DICT[SourceSegment(uri)] \o <<":">> \o StripNonNumeric(LastField(RStripSlash(uri), "/"))

\* C16: for every set of uris, uris_to_oxo_format returns, without an error, the list of
\* the identifiers "PREFIX:digits" of the uris whose source, the second-to-last path
\* segment, is in the prefix table; the other uris are left out.
C16_ConversionNeverFails ==
    UrisToOxoReturned =>
        LET in_table == SelectSeq(call.uri_list, LAMBDA u : SourceSegment(u) \in DOMAIN URI_DB_TO_DB_DICT)
        IN  /\ call_result.val.ok
            /\ call_result.val.res = [i \in 1..Len(in_table) |-> OxoIdentifier(in_table[i])]

\* what OLS answers to the two checks of a uri
CurrentAndInScope(uri) == is_current_and_in_efo(ols_efo_service(uri)).val
InScope(uri) == is_in_efo(ols_efo_service(uri))

\* the Zooma entries that get_ontology_mappings has enriched for the trait in hand
ZoomaEntriesEnriched ==
    IF pc = "enrich_zooma"
    THEN {mappings.val[ZoomaPositions(mappings.val)[k][1]].zooma_entry_list[ZoomaPositions(mappings.val)[k][2]] :
            k \in 1..(cursor - 1)}
    ELSE IF pc = "process_trait" /\ ~mappings.none THEN Range(ZoomaEntries(mappings.val))
    ELSE IF AfterZooma THEN TraitZoomaEntries
    ELSE {}

\* C17: an enriched entry, of Zooma or of OxO alike, is never current without being in
\* EFO; while no request has failed, an entry with uri u has (in_efo, is_current) =
\* (TRUE, TRUE) if CurrentAndInScope(u) and (InScope(u), FALSE) otherwise, and InScope
\* was evaluated (is_in_efo has a cached result) only for uris whose CurrentAndInScope is
\* false.
C17_EnrichmentPolicy ==
    /\ \A e \in ZoomaEntriesEnriched \cup OxOMappingsMade :
            /\ e.is_current => e.in_efo
            /\ outages = 0 =>
                    IF CurrentAndInScope(e.uri)
                    THEN e.in_efo /\ e.is_current
                    ELSE e.in_efo = InScope(e.uri) /\ ~e.is_current
    /\ outages = 0 => \A i \in 1..Len(in_efo_cache) : ~CurrentAndInScope(in_efo_cache[i].key)

\* OxO gave mappings to an obsolete EFO term, to a current one and to a term outside EFO,
\* and Zooma an entry outside EFO: all four were enriched, with no failed request
C17_Witness ==
    /\ pc = "output_trait"
    /\ outages = 0
    /\ \E e \in TraitOxOMappings : e.in_efo /\ ~e.is_current
    /\ \E e \in TraitOxOMappings : e.in_efo /\ e.is_current
    /\ \E e \in TraitOxOMappings : ~e.in_efo /\ ~e.is_current
    /\ \E e \in TraitZoomaEntries : ~e.in_efo /\ ~e.is_current

\* the label lookup for the uri gave nothing that the entry could have taken
LabelLookupFailed(uri, ontology_label) ==
    ols_terms_service(uri).none \/ ontology_label # ols_terms_service(uri).val

\* C18: an entry whose label lookup failed keeps the label its source supplied: a Zooma
\* entry the label of its mapping in the Zooma response, an OxO mapping the label of the
\* OxO response; resolution goes on, and that label is the one of the finished mappings.
C18_KeepsSourceLabel ==
    /\ AfterZooma =>
            \A i \in 1..Len(trait.zooma_mapping_list.val) :
                LET mapping == trait.zooma_mapping_list.val[i]
                IN  \A e \in Range(mapping.zooma_entry_list) :
                        LabelLookupFailed(e.uri, e.ontology_label)
                            => e.ontology_label = mapping.zooma_label
    /\ \A m \in OxOMappingsMade :
            LabelLookupFailed(m.uri, m.ontology_label) => m.ontology_label = m.label
    /\ \A f \in Range(trait.finished_mapping_set) : f.label # ""

\* what zooma_query_helper returned for the query of the trait in hand
ZoomaReturned == CacheGet(zooma_cache, build_zooma_query(trait.name))

\* C19: get_ontology_mappings returns None exactly when the query got no response within
\* its attempts, and a list with one ZoomaMapping for each result of the response
\* otherwise, so the empty list exactly when Zooma answered with no result; a trait with
\* the empty list is not finished, has had no request sent to OxO, and gets a curation
\* row without candidates.
C19_FailureIsNotNoMatch ==
    /\ pc \in {"enrich_zooma", "process_trait"} =>
            /\ mappings.none <=> ZoomaReturned.none
            /\ ~ZoomaReturned.none =>
                    /\ Len(mappings.val) = Len(ZoomaReturned.val)
                    /\ mappings.val = <<>> <=> ZoomaReturned.val = <<>>
    /\ (pc = "output_done" /\ trait.zooma_mapping_list = Some(<<>>)) =>
            /\ Range(trait.finished_mapping_set) = {}
            /\ calls.oxo = 0
            /\ mapping_rows = {}
            /\ Len(curation_rows) = 1
            /\ curation_rows[1].name = trait.name
            /\ curation_rows[1].zooma_cells = <<>>
            /\ curation_rows[1].oxo_cells = <<>>

\* Zooma answered the query with no result: the trait has the empty list, not None, and
\* its curation row is written
C19_Witness ==
    /\ pc = "output_done"
    /\ calls.zooma = 1
    /\ ~ZoomaReturned.none
    /\ ZoomaReturned.val = <<>>
    /\ trait.zooma_mapping_list = Some(<<>>)
    /\ Len(curation_rows) = 1

\* no two members of the finished_mapping_set of the trait in hand have the same uri and
\* the same label
NoDuplicateFinishedMapping ==
    \A i, j \in 1..Len(trait.finished_mapping_set) :
        (/\ trait.finished_mapping_set[i].uri = trait.finished_mapping_set[j].uri
         /\ trait.finished_mapping_set[i].label = trait.finished_mapping_set[j].label) => i = j

\* a step of the resolution of the trait in hand keeps the members of its
\* finished_mapping_set (main takes a new Trait at "main", and drops it at "output_done")
FinishedMappingsKept ==
    pc \notin {"main", "output_done"} =>
        /\ Range(trait.finished_mapping_set) \subseteq Range(trait'.finished_mapping_set)
        /\ is_finished(trait) => is_finished(trait')

\* C20: in every state the finished_mapping_set of the trait in hand holds no two entries
\* with the same uri and label (entries made from different mappings with equal uri and
\* label are one member), and no step of process_trait or output_trait removes a member:
\* a trait that is finished stays finished.
C20_FinishedSetInvariant == [](NoDuplicateFinishedMapping) /\ [][FinishedMappingsKept]_vars

\* two HIGH mappings of Zooma gave the same current EFO term: the trait is finished with
\* one entry
C20_Witness ==
    /\ pc = "output_trait"
    /\ Len(trait.zooma_mapping_list.val) = 2
    /\ \A e \in TraitZoomaEntries :
            e.confidence = ZoomaConfidence[conf_HIGH] /\ e.in_efo /\ e.is_current
    /\ Len(trait.finished_mapping_set) = 1

\* the entries of the HIGH groups of the trait in hand
HighEntries == {e \in TraitZoomaEntries : e.confidence = ZoomaConfidence[conf_HIGH]}

\* process_trait is in get_oxo_results, or has its result to assign
InOxO == pc \in {"get_oxo_results", "parse_oxo", "process_oxo"}

C22_NoInEfoUriSeedsOxO ==
    InOxO => \A e \in TraitZoomaEntries : e.in_efo => e.uri \notin uris_for_oxo_set

\* the term-metadata service found the term of the call: status 200
TermFound == call.response.status_code = 200

\* the obsolete flag of the term the service found (its answer can be read)
TermObsolete == call.response.json.val.is_obsolete

StageRank ==
    [s \in {"enrich_zooma", "process_trait", "get_oxo_results", "parse_oxo", "process_oxo",
            "output_trait", "output_done", "aborted"} |->
        CASE s = "enrich_zooma" -> 1
          [] s = "process_trait" -> 2
          [] s = "get_oxo_results" -> 3
          [] s = "parse_oxo" -> 4
          [] s = "process_oxo" -> 5
          [] s = "output_trait" -> 6
          [] s = "output_done" -> 7
          [] OTHER -> 8]

\* for the trait in hand Zooma was tried at most RetryCount times and OxO at most
\* RetryCount times
AttemptsBounded ==
    /\ calls.zooma_attempts <= RetryCount
    /\ calls.zooma <= RetryCount
    /\ calls.oxo <= RetryCount

\* a step that enriches one entry makes at most RetryCount label attempts and 2 requests
\* for membership and currency, and no step goes back to an earlier stage: a step that
\* stays in its stage goes on to the next entry
BoundedStep ==
    /\ calls'.ols_terms - calls.ols_terms <= RetryCount
    /\ calls'.ols_efo - calls.ols_efo <= 2
    /\ (pc \in DOMAIN StageRank /\ pc' \in DOMAIN StageRank) =>
            \/ StageRank[pc'] > StageRank[pc]
            \/ StageRank[pc'] = StageRank[pc] /\ cursor' > cursor

\* the part of C24 on the number of calls and on the order of the stages
BoundedResolution == [](AttemptsBounded) /\ [][BoundedStep]_vars

\* C24: the resolution of a trait ends finished or for curation after a bounded number of
\* remote calls, every call returning: at most 4 attempts of the Zooma query, at most 4
\* attempts of the OxO query, for each enriched entry at most 4 label attempts and 2
\* requests for membership and currency, no step going back to an earlier stage, and
\* process_trait never ending otherwise than by returning its trait for output.
C24_BoundedTermination ==
    [](AttemptsBounded) /\ [][BoundedStep]_vars /\ [](pc # "aborted")

\* every ZoomaEntry and OxOMapping there is: those get_ontology_mappings and
\* get_oxo_results are building or have returned, enriched or not yet, and those of the
\* trait in hand
AllEntries ==
    (IF mappings.none THEN {} ELSE Range(ZoomaEntries(mappings.val)))
    \cup (IF trait.zooma_mapping_list.none THEN {} ELSE TraitZoomaEntries)
    \cup (IF oxo_result_list.none THEN {} ELSE Range(OxOMappings(oxo_result_list.val)))
    \cup (IF trait.oxo_xref_list.none THEN {} ELSE TraitOxOMappings)

\* C25: in every state every entry of Zooma and every mapping of OxO, before and after
\* its enrichment, that has is_current true has in_efo true: no entry has in_efo false
\* and is_current true.
C25_CurrentImpliesInEfo ==
    \A e \in AllEntries : ~(~e.in_efo /\ e.is_current)

\* get_ontology_mappings is between two entries: the one it has enriched is current and
\* in EFO, the next one has the two flags of its construction
C25_Witness ==
    /\ pc = "enrich_zooma"
    /\ cursor = 2
    /\ LET list == ZoomaEntries(mappings.val)
       IN  /\ list[1].is_current /\ list[1].in_efo
           /\ ~list[2].is_current /\ ~list[2].in_efo

C27_OxONeverQueriedWithNoIds ==
    (InOxO /\ calls.oxo > 0) => Len(oxo_input_id_list) >= 1

====
